---------------------------- MODULE Spec2Model ----------------------------
(***************************************************************************)
(* Model of the Qwery SDK client (src/src/client.rs, types.rs, error.rs):  *)
(* one QweryClient shared by several callers, the five operations          *)
(* create_payment, sign_and_settle, settle_payment, verify_payment and     *)
(* health, the requests they put on the wire, the facilitator's answers,   *)
(* and the transaction codec (base64 + bincode) and the partial_sign step  *)
(* that sign_and_settle runs locally.                                      *)
(***************************************************************************)
EXTENDS Integers, Sequences, FiniteSets, TLC

(***************************************************************************)
(* Bounds of the model.                                                    *)
(***************************************************************************)
\* Number of logical callers sharing the one client.
NumCallers == 2
\* Width in bytes of a signature, of a public key and of a blockhash.  The
\* ledger's widths are 64, 32 and 32; the codec treats each as a fixed-width
\* byte array, so the model keeps them fixed-width and scales them down.
SigLen == 2
KeyLen == 1
HashLen == 1

\* Option::None; Some(v) is v itself.
None == "<none>"

VARIABLES
    config,       \* QweryClient.config, the client's only data besides the HTTP pool
    constructed,  \* the QweryConfig handed to with_config (history)
    calls,        \* per caller: the call it is making, what it sent, what it got
    codec         \* the codec applied to one input, outside any call

vars == << config, constructed, calls, codec >>

Callers == 1..NumCallers

(***************************************************************************)
(* Text and bytes.  A byte is 0..255.  A text is a sequence of symbols:    *)
(* 0..63 is the index of a character in the standard base64 alphabet,      *)
(* PadSym is '=', and BadSym is a character outside the alphabet.          *)
(***************************************************************************)
PadSym == 64
BadSym == 65

Drop(s, n) == SubSeq(s, n + 1, Len(s))
Take(s, n) == SubSeq(s, 1, n)

\* BASE64.encode: three bytes to four symbols, '=' padding on the last group.
RECURSIVE BASE64_encode(_)
BASE64_encode(bytes) ==
    IF Len(bytes) = 0 THEN << >>
    ELSE IF Len(bytes) = 1 THEN
        << bytes[1] \div 4, (bytes[1] % 4) * 16, PadSym, PadSym >>
    ELSE IF Len(bytes) = 2 THEN
        << bytes[1] \div 4,
           (bytes[1] % 4) * 16 + (bytes[2] \div 16),
           (bytes[2] % 16) * 4,
           PadSym >>
    ELSE
        << bytes[1] \div 4,
           (bytes[1] % 4) * 16 + (bytes[2] \div 16),
           (bytes[2] % 16) * 4 + (bytes[3] \div 64),
           bytes[3] % 64 >> \o BASE64_encode(Drop(bytes, 3))

IsSextet(s) == s \in 0..63

\* One full group of four alphabet symbols to three bytes.
DecodeQuad(q) ==
    << q[1] * 4 + (q[2] \div 16),
       (q[2] % 16) * 16 + (q[3] \div 4),
       (q[3] % 4) * 64 + q[4] >>


\* Variant: bits left over behind the last byte are ignored.
DecodeLastQuadAnyTrailingBits(q) ==
    IF IsSextet(q[1]) /\ IsSextet(q[2]) /\ IsSextet(q[3]) /\ IsSextet(q[4]) THEN
        [ok |-> TRUE, bytes |-> DecodeQuad(q)]
    ELSE IF IsSextet(q[1]) /\ IsSextet(q[2]) /\ IsSextet(q[3]) /\ q[4] = PadSym THEN
        [ok |-> TRUE, bytes |-> Take(DecodeQuad(<<q[1], q[2], q[3], 0>>), 2)]
    ELSE IF IsSextet(q[1]) /\ IsSextet(q[2]) /\ q[3] = PadSym /\ q[4] = PadSym THEN
        [ok |-> TRUE, bytes |-> Take(DecodeQuad(<<q[1], q[2], 0, 0>>), 1)]
    ELSE [ok |-> FALSE, bytes |-> << >>]

\* The last group of a text under the STANDARD engine: canonical padding is
\* required and the bits left over behind the last byte must be zero.
DecodeLastQuad(q) ==
    IF IsSextet(q[1]) /\ IsSextet(q[2]) /\ IsSextet(q[3]) /\ IsSextet(q[4]) THEN
        [ok |-> TRUE, bytes |-> DecodeQuad(q)]
    ELSE IF IsSextet(q[1]) /\ IsSextet(q[2]) /\ IsSextet(q[3]) /\ q[4] = PadSym
            /\ q[3] % 4 = 0 THEN
        [ok |-> TRUE, bytes |-> Take(DecodeQuad(<<q[1], q[2], q[3], 0>>), 2)]
    ELSE IF IsSextet(q[1]) /\ IsSextet(q[2]) /\ q[3] = PadSym /\ q[4] = PadSym
            /\ q[2] % 16 = 0 THEN
        [ok |-> TRUE, bytes |-> Take(DecodeQuad(<<q[1], q[2], 0, 0>>), 1)]
    ELSE [ok |-> FALSE, bytes |-> << >>]

RECURSIVE Concat(_)
Concat(ss) == IF Len(ss) = 0 THEN << >> ELSE ss[1] \o Concat(Tail(ss))

\* The g-th group of four symbols of a text.
Quad(text, g) == SubSeq(text, 4 * g - 3, 4 * g)

DecodeError == [ok |-> FALSE, bytes |-> << >>]

\* BASE64.decode: [ok, bytes]; ok = FALSE is base64::DecodeError.  The text
\* is whole groups of four symbols; every group but the last is four
\* alphabet symbols, and only the last may be padded.
BASE64_decode(text) ==
    LET n == Len(text) \div 4
    IN  IF Len(text) % 4 # 0 THEN DecodeError
        ELSE IF n = 0 THEN [ok |-> TRUE, bytes |-> << >>]
        ELSE IF \E i \in 1..(4 * n - 4) : ~IsSextet(text[i]) THEN DecodeError
        ELSE IF ~DecodeLastQuad(Quad(text, n)).ok THEN DecodeError
        ELSE [ok |-> TRUE,
              bytes |-> Concat([g \in 1..(n - 1) |-> DecodeQuad(Quad(text, g))])
                        \o DecodeLastQuad(Quad(text, n)).bytes]

(***************************************************************************)
(* bincode of a Transaction.  A reader returns [ok, val, rest].            *)
(***************************************************************************)
ReadFail == [ok |-> FALSE, val |-> << >>, rest |-> << >>]

ReadBytes(s, n) ==
    IF Len(s) >= n THEN [ok |-> TRUE, val |-> Take(s, n), rest |-> Drop(s, n)]
    ELSE ReadFail

\* The compact-u16 length prefix of a short_vec: seven bits per byte, low
\* bits first, at most three bytes, no aliases (a zero continuation byte).
WriteShortU16(n) ==
    IF n < 128 THEN << n >>
    ELSE IF n < 16384 THEN << 128 + (n % 128), n \div 128 >>
    ELSE << 128 + (n % 128), 128 + ((n \div 128) % 128), n \div 16384 >>

ReadShortU16(s) ==
    IF Len(s) < 1 THEN ReadFail
    ELSE IF s[1] < 128 THEN [ok |-> TRUE, val |-> s[1], rest |-> Drop(s, 1)]
    ELSE IF Len(s) < 2 \/ s[2] = 0 THEN ReadFail
    ELSE IF s[2] < 128 THEN
        [ok |-> TRUE, val |-> (s[1] % 128) + 128 * s[2], rest |-> Drop(s, 2)]
    ELSE IF Len(s) < 3 \/ s[3] = 0 \/ s[3] > 3 THEN ReadFail
    ELSE [ok |-> TRUE,
          val |-> (s[1] % 128) + 128 * (s[2] % 128) + 16384 * s[3],
          rest |-> Drop(s, 3)]

\* F applied to the value of v, with v evaluated once.
Bind(v, F(_)) == CHOOSE r \in { F(x) : x \in {v} } : TRUE

\* count items of width bytes each.
ReadArray(s, count, width) ==
    IF Len(s) >= count * width THEN
        [ok |-> TRUE,
         val |-> [i \in 1..count |-> SubSeq(s, (i - 1) * width + 1, i * width)],
         rest |-> Drop(s, count * width)]
    ELSE ReadFail

\* short_vec of u8.
ReadShortVecU8(s) ==
    Bind(ReadShortU16(s), LAMBDA n :
        IF ~n.ok THEN ReadFail ELSE ReadBytes(n.rest, n.val))

\* CompiledInstruction: program_id_index u8, accounts and data short_vec<u8>.
ReadInstruction(s) ==
    Bind(ReadBytes(s, 1), LAMBDA p :
    IF ~p.ok THEN ReadFail ELSE
    Bind(ReadShortVecU8(p.rest), LAMBDA a :
    IF ~a.ok THEN ReadFail ELSE
    Bind(ReadShortVecU8(a.rest), LAMBDA d :
    IF ~d.ok THEN ReadFail ELSE
        [ok |-> TRUE,
         val |-> [program_id_index |-> p.val[1], accounts |-> a.val, data |-> d.val],
         rest |-> d.rest])))

RECURSIVE ReadInstructions(_, _)
ReadInstructions(s, count) ==
    IF count = 0 THEN [ok |-> TRUE, val |-> << >>, rest |-> s]
    ELSE
    Bind(ReadInstruction(s), LAMBDA head :
    IF ~head.ok THEN ReadFail ELSE
    Bind(ReadInstructions(head.rest, count - 1), LAMBDA tail :
    IF ~tail.ok THEN ReadFail ELSE
        [ok |-> TRUE, val |-> <<head.val>> \o tail.val, rest |-> tail.rest]))

WriteInstruction(ix) ==
    << ix.program_id_index >>
    \o WriteShortU16(Len(ix.accounts)) \o ix.accounts
    \o WriteShortU16(Len(ix.data)) \o ix.data

\* Message: header (three u8), account_keys, recent_blockhash, instructions.
message_data(m) ==
    << m.num_required_signatures, m.num_readonly_signed, m.num_readonly_unsigned >>
    \o WriteShortU16(Len(m.account_keys)) \o Concat(m.account_keys)
    \o m.recent_blockhash
    \o WriteShortU16(Len(m.instructions))
    \o Concat([i \in 1..Len(m.instructions) |-> WriteInstruction(m.instructions[i])])

\* bincode::serialize(&transaction): signatures, then the message.
bincode_serialize(tx) ==
    WriteShortU16(Len(tx.signatures)) \o Concat(tx.signatures)
    \o message_data(tx.message)

ReadMessage(s) ==
    Bind(ReadBytes(s, 3), LAMBDA h :
    IF ~h.ok THEN ReadFail ELSE
    Bind(ReadShortU16(h.rest), LAMBDA nk :
    IF ~nk.ok THEN ReadFail ELSE
    Bind(ReadArray(nk.rest, nk.val, KeyLen), LAMBDA ks :
    IF ~ks.ok THEN ReadFail ELSE
    Bind(ReadBytes(ks.rest, HashLen), LAMBDA bh :
    IF ~bh.ok THEN ReadFail ELSE
    Bind(ReadShortU16(bh.rest), LAMBDA ni :
    IF ~ni.ok THEN ReadFail ELSE
    Bind(ReadInstructions(ni.rest, ni.val), LAMBDA is :
    IF ~is.ok THEN ReadFail ELSE
        [ok |-> TRUE,
         val |-> [num_required_signatures |-> h.val[1],
                  num_readonly_signed |-> h.val[2],
                  num_readonly_unsigned |-> h.val[3],
                  account_keys |-> ks.val,
                  recent_blockhash |-> bh.val,
                  instructions |-> is.val],
         rest |-> is.rest]))))))

\* The reader behind bincode::deserialize::<Transaction>: [ok, val, rest].
ReadTransaction(bytes) ==
    Bind(ReadShortU16(bytes), LAMBDA ns :
    IF ~ns.ok THEN ReadFail ELSE
    Bind(ReadArray(ns.rest, ns.val, SigLen), LAMBDA sg :
    IF ~sg.ok THEN ReadFail ELSE
    Bind(ReadMessage(sg.rest), LAMBDA m :
    IF ~m.ok THEN ReadFail ELSE
        [ok |-> TRUE,
         val |-> [signatures |-> sg.val, message |-> m.val],
         rest |-> m.rest])))

\* bincode::deserialize(&tx_bytes): [ok, tx, unread].  bincode::deserialize reads one
\* value from the front of the slice and does not look at what follows it.
bincode_deserialize(bytes) ==
    Bind(ReadTransaction(bytes), LAMBDA r :
        [ok |-> r.ok, tx |-> r.val, unread |-> r.rest])


\* Variant: both decoding failures reported as ApiError.
DecodeTransactionAsApiError(text) ==
    Bind(BASE64_decode(text), LAMBDA b :
    IF ~b.ok THEN
        [ok |-> FALSE, error |-> "ApiError", tx |-> << >>, unread |-> << >>]
    ELSE
    Bind(bincode_deserialize(b.bytes), LAMBDA d :
    IF ~d.ok THEN
        [ok |-> FALSE, error |-> "ApiError", tx |-> << >>, unread |-> << >>]
    ELSE
        [ok |-> TRUE, error |-> "", tx |-> d.tx, unread |-> d.unread]))

\* Lines 141-146 of sign_and_settle: text to transaction.  error names the
\* QweryError the failing step is mapped to.
DecodeTransaction(text) ==
    Bind(BASE64_decode(text), LAMBDA b :
    IF ~b.ok THEN
        [ok |-> FALSE, error |-> "Base64Error", tx |-> << >>, unread |-> << >>]
    ELSE
    Bind(bincode_deserialize(b.bytes), LAMBDA d :
    IF ~d.ok THEN
        [ok |-> FALSE, error |-> "SolanaError", tx |-> << >>, unread |-> << >>]
    ELSE
        [ok |-> TRUE, error |-> "", tx |-> d.tx, unread |-> d.unread]))

\* Lines 151-154 of sign_and_settle: transaction to text.
EncodeTransaction(tx) == BASE64_encode(bincode_serialize(tx))

(***************************************************************************)
(* Keys and the signing step.                                              *)
(***************************************************************************)
Keypairs == {"kA", "kB"}

KeyByte(k) == IF k = "kA" THEN 1 ELSE 2

\* keypair.pubkey()
Pubkey(k) == [i \in 1..KeyLen |-> KeyByte(k)]

RECURSIVE SumBytes(_)
SumBytes(s) == IF Len(s) = 0 THEN 0 ELSE s[1] + SumBytes(Tail(s))

\* keypair.sign_message(message_data): deterministic in the key and the
\* message, never the all-zero default signature.
sign_message(k, msg) ==
    [i \in 1..SigLen |-> ((KeyByte(k) * 31 + SumBytes(msg) + i) % 255) + 1]

\* Position of the key among the first num_required_signatures account keys,
\* 0 when it has no signer slot.
SignerPosition(tx, k) ==
    LET n == tx.message.num_required_signatures
        hits == {i \in 1..n : i <= Len(tx.message.account_keys)
                              /\ tx.message.account_keys[i] = Pubkey(k)}
    IN  IF hits = {} THEN 0 ELSE CHOOSE i \in hits : \A j \in hits : i <= j

\* transaction.partial_sign(&[keypair], transaction.message.recent_blockhash):
\* [panicked, tx].  The blockhash passed is the transaction's own, so no
\* signature is reset.  partial_sign panics on every error of try_partial_sign
\* (fewer account keys than required signatures, no signer slot for the key)
\* and on a signer position beyond the signatures array.
partial_sign(tx, k) ==
    LET pos == SignerPosition(tx, k)
    IN  IF Len(tx.message.account_keys) < tx.message.num_required_signatures
           \/ pos = 0 \/ pos > Len(tx.signatures)
        THEN [panicked |-> TRUE, tx |-> tx]
        ELSE [panicked |-> FALSE,
              tx |-> [tx EXCEPT !.signatures[pos] =
                                   sign_message(k, message_data(tx.message))]]

(***************************************************************************)
(* Transactions and transaction texts the facilitator may hand out.        *)
(***************************************************************************)
DefaultSignature == [i \in 1..SigLen |-> 0]

\* An unsigned transfer whose required signers are the given keys.
UnsignedTx(signers, hashByte) ==
    [signatures |-> [i \in 1..Len(signers) |-> DefaultSignature],
     message |->
        [num_required_signatures |-> Len(signers),
         num_readonly_signed |-> 0,
         num_readonly_unsigned |-> 1,
         account_keys |-> [i \in 1..Len(signers) |-> Pubkey(signers[i])]
                          \o << [i \in 1..KeyLen |-> 9], [i \in 1..KeyLen |-> 0] >>,
         recent_blockhash |-> [i \in 1..HashLen |-> hashByte],
         instructions |-> << [program_id_index |-> Len(signers) + 2,
                              accounts |-> << 0, Len(signers) >>,
                              data |-> << 2, 255 >>] >>]]

\* The transaction the facilitator issues for payer kA.
PayerTx == UnsignedTx(<< "kA" >>, 7)
PayerText == EncodeTransaction(PayerTx)

\* Texts that are not valid base64: a character outside the alphabet, and a
\* length that is no multiple of four.
BadBase64Texts ==
    { [PayerText EXCEPT ![1] = BadSym], Take(PayerText, Len(PayerText) - 1),
      [PayerText EXCEPT ![2] = PadSym] }

\* Valid base64 whose bytes stop before the transaction is complete.
BadStructureTexts ==
    { BASE64_encode(Take(bincode_serialize(PayerTx), 3)), << >>,
      BASE64_encode(Take(bincode_serialize(PayerTx),
                         Len(bincode_serialize(PayerTx)) - 1)) }

\* Valid base64 of a transaction followed by further bytes.
TrailingTexts == { BASE64_encode(bincode_serialize(PayerTx) \o << 5 >>) }

TxTexts == {PayerText} \cup BadBase64Texts \cup BadStructureTexts \cup TrailingTexts

(***************************************************************************)
(* Types of src/src/types.rs.                                              *)
(***************************************************************************)
\* Network::as_str
as_str(network) == IF network = "Mainnet" THEN "solana" ELSE "solana-devnet"

\* QweryConfig::default() and the configuration of the with_config example.
DefaultConfig ==
    [facilitator_url |-> "https://facilitator.qwery.xyz",
     network |-> "Mainnet", api_key |-> None]

Configs ==
    { DefaultConfig,
      [facilitator_url |-> "https://facilitator.qwery.xyz",
       network |-> "Devnet", api_key |-> "your_api_key"] }

PaymentRequests ==
    { [amount |-> "0.01", token |-> "SOL", recipient |-> "R", metadata |-> None] }

PaymentResponseOf(text) ==
    [payment_id |-> "p1", transaction |-> text, amount |-> "0.01",
     token |-> "SOL", recipient |-> "R", network |-> "solana",
     status |-> "pending", expires_at |-> None]

Envelopes == { PaymentResponseOf(t) : t \in TxTexts }

SettleRequests ==
    { [payment_id |-> "p1", signed_transaction |-> EncodeTransaction(partial_sign(PayerTx, "kA").tx)] }

Signatures == { "abc" }

\* JSON values a 2xx body may hold, tagged with the struct they deserialize to.
SettleBodies ==
    { [type |-> "SettleResponse", success |-> TRUE, signature |-> "abc",
       status |-> "settled", error |-> None],
      [type |-> "SettleResponse", success |-> FALSE, signature |-> None,
       status |-> "failed", error |-> "expired"],
      [type |-> "SettleResponse", success |-> TRUE, signature |-> None,
       status |-> "settled", error |-> "late"] }

JsonBodies(type) ==
    IF type = "PaymentResponse" THEN
        { [type |-> "PaymentResponse"] @@ PaymentResponseOf(PayerText) }
    ELSE IF type = "SettleResponse" THEN SettleBodies
    ELSE IF type = "VerifyResponse" THEN
        { [type |-> "VerifyResponse", verified |-> TRUE, status |-> "confirmed",
           confirmations |-> 32] }
    ELSE
        { [type |-> "HealthResponse", status |-> "ok", version |-> "1",
           networks |-> "solana:ok"] }

NotJson == [type |-> "<not json>"]

\* A rendering of a JSON value as body text, distinct for distinct values.
RawText(j) ==
    "{" \o j.type \o " " \o j.status \o
    (IF j.type = "SettleResponse" THEN " " \o j.signature \o " " \o j.error ELSE "")
    \o "}"

(***************************************************************************)
(* The wire: requests the client sends and answers it gets.                *)
(***************************************************************************)
NoBody == [kind |-> "<no body>"]


\* Variant: the header is attached only while no other call is in flight.
AuthorizationWhenAlone(cfg) ==
    IF cfg.api_key # None /\ \A c \in Callers : calls[c].pc # "awaiting"
    THEN "Bearer " \o cfg.api_key ELSE None

\* The Authorization header create_payment and settle_payment attach.
Authorization(cfg) ==
    IF cfg.api_key # None THEN "Bearer " \o cfg.api_key ELSE None

\* create_payment's request.
CreateHttp(cfg, request) ==
    [method |-> "POST",
     url |-> cfg.facilitator_url \o "/payments/create",
     authorization |-> Authorization(cfg),
     body |-> [amount |-> request.amount, token |-> request.token,
               recipient |-> request.recipient,
               network |-> as_str(cfg.network),
               metadata |-> request.metadata]]

\* settle_payment's request.
SettleHttp(cfg, request) ==
    [method |-> "POST",
     url |-> cfg.facilitator_url \o "/payments/settle",
     authorization |-> Authorization(cfg),
     body |-> request]

\* verify_payment's request: no header is added to it.
VerifyHttp(cfg, signature) ==
    [method |-> "POST",
     url |-> cfg.facilitator_url \o "/payments/verify",
     authorization |-> None,
     body |-> [signature |-> signature, network |-> as_str(cfg.network)]]

\* health's request.
HealthHttp(cfg) ==
    [method |-> "GET",
     url |-> cfg.facilitator_url \o "/health",
     authorization |-> None,
     body |-> NoBody]


\* Variant: the request is sent, and sent again.
SendTwice(sent, req) == sent \o << req, req >>

\* req.send(): the request goes on the wire, once.
Send(sent, req) == Append(sent, req)

\* What comes back: no response at all (DNS, TLS, timeout, reset), or a
\* status with a body; a body is unreadable when the connection fails
\* while it is read.
TransportFailure ==
    [kind |-> "transport_error", status |-> 0,
     body |-> [readable |-> FALSE, text |-> "", json |-> NotJson]]

Response(status, body) == [kind |-> "response", status |-> status, body |-> body]

UnreadableBody == [readable |-> FALSE, text |-> "", json |-> NotJson]
TextBody(t) == [readable |-> TRUE, text |-> t, json |-> NotJson]
JsonBody(j) == [readable |-> TRUE, text |-> RawText(j), json |-> j]

Answers(type) ==
    { TransportFailure,
      Response(400, TextBody("rejected")),
      Response(500, UnreadableBody),
      Response(200, TextBody("<html>")),
      Response(200, UnreadableBody) }
    \cup { Response(200, JsonBody(j)) : j \in JsonBodies(type) }
    \cup { Response(402, JsonBody(j)) :
               j \in { k \in JsonBodies(type) : k.type = "SettleResponse" => ~k.success } }


\* Variant: only a 5xx status counts as a failure.
is_success_below_500(status) == status < 500

\* response.status().is_success()
is_success(status) == status \in 200..299

(***************************************************************************)
(* Results: Ok(value), Err(kind, text) or a panic of the calling task.     *)
(***************************************************************************)
NoValue == [type |-> "<no value>"]
NoResult == [kind |-> "<none>", error |-> None, text |-> None, value |-> NoValue]
Ok(v) == [kind |-> "Ok", error |-> None, text |-> None, value |-> v]
Err(e, t) == [kind |-> "Err", error |-> e, text |-> t, value |-> NoValue]
Panic == [kind |-> "panic", error |-> None, text |-> None, value |-> NoValue]

\* response.text().await.unwrap_or_default()
ErrorText(body) == IF body.readable THEN body.text ELSE ""


\* Variant: signature kept only on success, error only on failure.
FromJsonNormalised(type, j) ==
    IF type = "SettleResponse" THEN
        [success |-> j.success,
         signature |-> IF j.success THEN j.signature ELSE None,
         status |-> j.status,
         error |-> IF j.success THEN None ELSE j.error]
    ELSE [f \in DOMAIN j \ {"type"} |-> j[f]]

\* response.json::<T>(): the struct's fields, taken as the body gives them.
FromJson(type, j) ==
    IF type = "SettleResponse" THEN
        [success |-> j.success, signature |-> j.signature,
         status |-> j.status, error |-> j.error]
    ELSE [f \in DOMAIN j \ {"type"} |-> j[f]]

\* The part every network operation runs once send() has completed:
\*   let response = req.send().await?;
\*   if !response.status().is_success() { return Err(ApiError(text or "")) }
\*   Ok(response.json().await?)
HandleResponse(type, answer) ==
    IF answer.kind = "transport_error" THEN Err("RequestError", "send")
    ELSE IF ~is_success(answer.status) THEN Err("ApiError", ErrorText(answer.body))
    ELSE IF ~answer.body.readable THEN Err("RequestError", "body")
    ELSE IF answer.body.json.type # type THEN Err("RequestError", "decode")
    ELSE Ok(FromJson(type, answer.body.json))

\* The struct each operation deserializes a 2xx body into.
ResponseType(op) ==
    IF op = "create_payment" THEN "PaymentResponse"
    ELSE IF op \in {"sign_and_settle", "settle_payment"} THEN "SettleResponse"
    ELSE IF op = "verify_payment" THEN "VerifyResponse"
    ELSE "HealthResponse"

(***************************************************************************)
(* sign_and_settle's local part: decode, sign, encode.                     *)
(***************************************************************************)
NoTx == [signatures |-> << >>, message |-> [none |-> TRUE]]

\* Lines 141-154: outcome "settle" carries the signed text on to
\* settle_payment; every other outcome ends the call before any request.
SignLocal(payment, keypair) ==
    Bind(DecodeTransaction(payment.transaction), LAMBDA d :
    IF ~d.ok THEN
        [outcome |-> "Err", error |-> d.error, decoded |-> NoTx,
         signed_base64 |-> << >>]
    ELSE
    Bind(partial_sign(d.tx, keypair), LAMBDA s :
    IF s.panicked THEN
        [outcome |-> "panic", error |-> None, decoded |-> d.tx,
         signed_base64 |-> << >>]
    ELSE
        [outcome |-> "settle", error |-> None, decoded |-> d.tx,
         signed_base64 |-> EncodeTransaction(s.tx)]))


\* Variant: the signed text is written back into the caller's PaymentResponse.
PaymentSignedInPlace(payment, signed_base64) ==
    [payment EXCEPT !.transaction = signed_base64]

\* The caller's PaymentResponse after the call: sign_and_settle borrows it
\* immutably (payment: &PaymentResponse) and signs its own decoded copy.
PaymentAfter(payment, signed_base64) == payment

(***************************************************************************)
(* State.                                                                  *)
(***************************************************************************)
NoAnswer == [kind |-> "<none>", status |-> 0, body |-> UnreadableBody]
NoArgs == [none |-> TRUE]

Idle ==
    [pc |-> "idle", op |-> None, args |-> NoArgs, payment |-> NoArgs,
     decoded |-> NoTx, sent |-> << >>, answer |-> NoAnswer, result |-> NoResult]

\* A call that has sent its request and awaits the answer.
Awaiting(op, args, req) ==
    [Idle EXCEPT !.pc = "awaiting", !.op = op, !.args = args,
                 !.sent = Send(<< >>, req)]

CodecIdle ==
    [stage |-> "idle", text |-> << >>, tx |-> NoTx, ok |-> FALSE,
     unread |-> << >>, out_text |-> << >>, out_tx |-> NoTx, out_ok |-> FALSE]

\* QweryClient::with_config(config): the client holds the configuration given.
Init ==
    /\ constructed \in Configs
    /\ config = constructed
    /\ calls = [c \in Callers |-> Idle]
    /\ codec = CodecIdle

(***************************************************************************)
(* Operations.  Each network operation runs up to its send().await in one  *)
(* step and resumes in Complete when the facilitator's answer is in.       *)
(***************************************************************************)
create_payment(c) ==
    /\ calls[c].pc = "idle"
    /\ \E request \in PaymentRequests :
         calls' = [calls EXCEPT ![c] =
                     Awaiting("create_payment", request, CreateHttp(config, request))]
    /\ UNCHANGED << config, constructed, codec >>

sign_and_settle(c) ==
    /\ calls[c].pc = "idle"
    /\ \E payment \in Envelopes, keypair \in Keypairs :
       \E local \in { SignLocal(payment, keypair) } :
         LET args == [payment |-> payment, keypair |-> keypair]
             begun == [Idle EXCEPT !.op = "sign_and_settle", !.args = args,
                                   !.payment = PaymentAfter(payment, local.signed_base64),
                                   !.decoded = local.decoded]
         IN  calls' = [calls EXCEPT ![c] =
                 IF local.outcome = "settle" THEN
                     [begun EXCEPT !.pc = "awaiting",
                         !.sent = Send(<< >>, SettleHttp(config,
                             [payment_id |-> payment.payment_id,
                              signed_transaction |-> local.signed_base64]))]
                 ELSE IF local.outcome = "panic" THEN
                     [begun EXCEPT !.pc = "panicked", !.result = Panic]
                 ELSE
                     [begun EXCEPT !.pc = "done", !.result = Err(local.error, "")]]
    /\ UNCHANGED << config, constructed, codec >>

settle_payment(c) ==
    /\ calls[c].pc = "idle"
    /\ \E request \in SettleRequests :
         calls' = [calls EXCEPT ![c] =
                     Awaiting("settle_payment", request, SettleHttp(config, request))]
    /\ UNCHANGED << config, constructed, codec >>

verify_payment(c) ==
    /\ calls[c].pc = "idle"
    /\ \E signature \in Signatures :
         calls' = [calls EXCEPT ![c] =
                     Awaiting("verify_payment", [signature |-> signature],
                              VerifyHttp(config, signature))]
    /\ UNCHANGED << config, constructed, codec >>

health(c) ==
    /\ calls[c].pc = "idle"
    /\ calls' = [calls EXCEPT ![c] = Awaiting("health", NoArgs, HealthHttp(config))]
    /\ UNCHANGED << config, constructed, codec >>

\* The awaited send() completes with the facilitator's answer (or without
\* one) and the operation runs to its return.
Complete(c) ==
    /\ calls[c].pc = "awaiting"
    /\ \E answer \in Answers(ResponseType(calls[c].op)) :
         calls' = [calls EXCEPT ![c] =
                     [@ EXCEPT !.pc = "done", !.answer = answer,
                               !.result = HandleResponse(ResponseType(calls[c].op), answer)]]
    /\ UNCHANGED << config, constructed, codec >>

\* The caller takes the result and is free to make its next call.  A caller
\* whose call panicked is gone.
Return(c) ==
    /\ calls[c].pc = "done"
    /\ calls' = [calls EXCEPT ![c] = Idle]
    /\ UNCHANGED << config, constructed, codec >>

Next ==
    \E c \in Callers :
        \/ create_payment(c)
        \/ sign_and_settle(c)
        \/ settle_payment(c)
        \/ verify_payment(c)
        \/ health(c)
        \/ Complete(c)
        \/ Return(c)

Spec == Init /\ [][Next]_vars

(***************************************************************************)
(* The codec on its own: decode and encode applied to bounded inputs.      *)
(***************************************************************************)
\* Well-formed transactions: one or two required signers, instruction data
\* of every length up to two, unsigned or signed by kA.
CodecUnsigned ==
    { [UnsignedTx(sg, 7) EXCEPT !.message.instructions[1].data = d] :
        sg \in { << "kA" >>, << "kA", "kB" >> },
        d \in { << >>, << 2 >>, << 2, 255 >> } }

CodecTxs == CodecUnsigned \cup { partial_sign(tx, "kA").tx : tx \in CodecUnsigned }

\* Texts: every encoding of those, each with one symbol replaced (by a
\* character outside the alphabet, by '=', by the next alphabet character),
\* each cut short, and each with bytes cut off or added before encoding.
CodecTextsOf(tx) ==
    LET t == EncodeTransaction(tx)
        b == bincode_serialize(tx)
    IN  {t}
        \cup { [t EXCEPT ![i] = BadSym] : i \in 1..Len(t) }
        \cup { [t EXCEPT ![i] = PadSym] : i \in 1..Len(t) }
        \cup { [t EXCEPT ![i] = (t[i] + 1) % 64] : i \in {j \in 1..Len(t) : t[j] # PadSym} }
        \cup { Take(t, n) : n \in 0..(Len(t) - 1) }
        \cup { BASE64_encode(Take(b, n)) : n \in 0..(Len(b) - 1) }
        \cup { BASE64_encode(b \o << x >>) : x \in {0, 5} }

CodecTexts == UNION { CodecTextsOf(tx) : tx \in CodecUnsigned }

CodecInit ==
    /\ constructed = DefaultConfig
    /\ config = constructed
    /\ calls = [c \in Callers |-> Idle]
    /\ codec \in { [CodecIdle EXCEPT !.stage = "text", !.text = t] : t \in CodecTexts }
           \cup { [CodecIdle EXCEPT !.stage = "tx", !.tx = e] : e \in CodecTxs }

\* decode(text)
CodecDecode ==
    /\ codec.stage = "text"
    /\ \E d \in { DecodeTransaction(codec.text) } :
         codec' = [codec EXCEPT !.stage = "decoded", !.ok = d.ok,
                                !.tx = IF d.ok THEN d.tx ELSE NoTx,
                                !.unread = d.unread]
    /\ UNCHANGED << config, constructed, calls >>

\* encode(decode(text))
CodecReencode ==
    /\ codec.stage = "decoded"
    /\ codec.ok
    /\ codec' = [codec EXCEPT !.stage = "reencoded",
                              !.out_text = EncodeTransaction(codec.tx)]
    /\ UNCHANGED << config, constructed, calls >>

\* encode(e)
CodecEncode ==
    /\ codec.stage = "tx"
    /\ codec' = [codec EXCEPT !.stage = "encoded", !.text = EncodeTransaction(codec.tx)]
    /\ UNCHANGED << config, constructed, calls >>

\* decode(encode(e))
CodecRedecode ==
    /\ codec.stage = "encoded"
    /\ \E d \in { DecodeTransaction(codec.text) } :
         codec' = [codec EXCEPT !.stage = "redecoded", !.out_ok = d.ok,
                                !.out_tx = IF d.ok THEN d.tx ELSE NoTx]
    /\ UNCHANGED << config, constructed, calls >>

CodecNext == CodecDecode \/ CodecReencode \/ CodecEncode \/ CodecRedecode

CodecSpec == CodecInit /\ [][CodecNext]_vars

(***************************************************************************)
(* Properties.                                                             *)
(***************************************************************************)

\* C9 as stated: decode(encode(e)) = e for every well-formed transaction e,
\* and encode(decode(text)) = text for every text that decode accepts.
C9_RoundTripEveryAcceptedText ==
    /\ codec.stage = "redecoded" => codec.out_ok /\ codec.out_tx = codec.tx
    /\ codec.stage = "reencoded" => codec.out_text = codec.text

\* C9, amended: decode(encode(e)) = e for every well-formed transaction e,
\* and encode(decode(text)) = text for every text that decode accepts and
\* whose bytes end where the transaction ends (decode accepts, and drops,
\* bytes that follow the transaction).
C9_RoundTrip ==
    /\ codec.stage = "redecoded" => codec.out_ok /\ codec.out_tx = codec.tx
    /\ codec.stage = "reencoded" /\ codec.unread = << >> =>
           codec.out_text = codec.text

\* A text that is not one of the generated encodings, decoded and encoded
\* again, with nothing behind the transaction.
C9_Witness ==
    /\ codec.stage = "reencoded"
    /\ codec.unread = << >>
    /\ codec.text \notin { EncodeTransaction(tx) : tx \in CodecUnsigned }
    /\ codec.out_text = codec.text

SignAndSettleCalls == { c \in Callers : calls[c].op = "sign_and_settle" }
SettleCalls == { c \in Callers : calls[c].op \in {"sign_and_settle", "settle_payment"} }
Answered == { c \in Callers : calls[c].pc = "done" /\ calls[c].answer.kind # "<none>" }

\* C1: a sign_and_settle whose transaction text is not valid base64 returns
\* Base64Error, one whose decoded bytes are no transaction returns
\* SolanaError; neither is ApiError, and the call sends no request.
C1_MalformedBlobFailsBeforeSettle ==
    \A c \in SignAndSettleCalls :
        /\ calls[c].args.payment.transaction \in BadBase64Texts =>
              /\ calls[c].pc = "done"
              /\ calls[c].result.kind = "Err"
              /\ calls[c].result.error = "Base64Error"
              /\ calls[c].sent = << >>
        /\ calls[c].args.payment.transaction \in BadStructureTexts =>
              /\ calls[c].pc = "done"
              /\ calls[c].result.kind = "Err"
              /\ calls[c].result.error = "SolanaError"
              /\ calls[c].sent = << >>

\* One call has failed on a text that is not base64 and another on bytes
\* that are no transaction.
C1_Witness ==
    \E c, d \in SignAndSettleCalls :
        /\ calls[c].args.payment.transaction \in BadBase64Texts
        /\ calls[d].args.payment.transaction \in BadStructureTexts
        /\ calls[c].pc = "done" /\ calls[d].pc = "done"

\* The paths under the facilitator URL.
IsPaymentsUrl(url) ==
    url \in { config.facilitator_url \o "/payments/create",
              config.facilitator_url \o "/payments/settle",
              config.facilitator_url \o "/payments/verify" }

\* C2: with an api_key every request to payments/create, payments/settle and
\* payments/verify carries Authorization: Bearer <api_key> and no request to
\* /health does; without an api_key no request carries the header.
C2_BearerOnEveryPaymentsCall ==
    \A c \in Callers : \A i \in 1..Len(calls[c].sent) :
        LET r == calls[c].sent[i]
        IN  IF config.api_key # None /\ IsPaymentsUrl(r.url)
            THEN r.authorization = "Bearer " \o config.api_key
            ELSE r.authorization = None

\* C3: an operation answered with a non-2xx status returns Err(ApiError(text)),
\* text being the response body, or empty when the body cannot be read.
C3_NonSuccessIsApiError ==
    \A c \in Answered :
        LET a == calls[c].answer
        IN  a.kind = "response" /\ (a.status < 200 \/ a.status > 299) =>
              /\ calls[c].result.kind = "Err"
              /\ calls[c].result.error = "ApiError"
              /\ calls[c].result.text = IF a.body.readable THEN a.body.text ELSE ""

\* A non-2xx answer whose body is a well-typed JSON value has been handled
\* by one caller and one whose body cannot be read by another.
C3_Witness ==
    \E c, d \in Answered :
        /\ calls[c].answer.status = 402 /\ calls[c].answer.body.json # NotJson
        /\ calls[d].answer.status = 500 /\ ~calls[d].answer.body.readable
        /\ calls[c].op = "create_payment"
        /\ calls[d].op \in {"verify_payment", "health"}

\* Whether the transaction has a signer slot for the key.
HasSignerSlot(tx, k) ==
    \E i \in 1..tx.message.num_required_signatures :
        /\ i <= Len(tx.message.account_keys)
        /\ tx.message.account_keys[i] = Pubkey(k)

\* C4: a sign_and_settle whose decoded transaction has no signer slot for the
\* keypair returns Err(SigningError) and sends no settle request.
C4_NoSignerSlotIsSigningError ==
    \A c \in SignAndSettleCalls :
        calls[c].decoded # NoTx /\ ~HasSignerSlot(calls[c].decoded, calls[c].args.keypair) =>
            /\ calls[c].result.kind = "Err"
            /\ calls[c].result.error = "SigningError"
            /\ calls[c].sent = << >>

\* C5: every call sends at most one request, a call that awaits or has an
\* answer has sent exactly one, and a sign_and_settle has sent one request,
\* to payments/settle, unless it failed decoding or signing, and then none.
C5_NoRetry ==
    \A c \in Callers :
        /\ Len(calls[c].sent) <= 1
        /\ calls[c].pc = "awaiting" \/ calls[c].answer.kind # "<none>" =>
              Len(calls[c].sent) = 1
        /\ calls[c].op = "sign_and_settle" =>
              IF \/ calls[c].result.kind = "panic"
                 \/ calls[c].result.error \in {"Base64Error", "SolanaError"}
              THEN calls[c].sent = << >>
              ELSE /\ Len(calls[c].sent) = 1
                   /\ calls[c].sent[1].url = config.facilitator_url \o "/payments/settle"

\* A sign_and_settle has ended on a transport failure and a settle_payment
\* on a non-2xx answer.
C5_Witness ==
    \E c, d \in Answered :
        /\ calls[c].op = "sign_and_settle" /\ calls[c].answer.kind = "transport_error"
        /\ calls[d].op = "settle_payment" /\ calls[d].answer.status = 400

\* C6: during and after sign_and_settle the caller's PaymentResponse is the
\* one it passed, field for field, and its transaction text still decodes to
\* the transaction the call decoded.
C6_EnvelopeUnchanged ==
    \A c \in SignAndSettleCalls :
        /\ calls[c].payment = calls[c].args.payment
        /\ calls[c].decoded # NoTx =>
              DecodeTransaction(calls[c].payment.transaction).tx = calls[c].decoded

\* A sign_and_settle has returned Ok after sending a signed text that differs
\* from the text it was given, and another has panicked after decoding.
C6_Witness ==
    \E c, d \in SignAndSettleCalls :
        /\ calls[c].result.kind = "Ok"
        /\ calls[c].sent[1].body.signed_transaction # calls[c].payment.transaction
        /\ calls[d].result.kind = "panic"
        /\ calls[d].decoded # NoTx

\* C7: a transport failure returns RequestError, and RequestError is returned
\* only when the transport failed: an answer that arrived, whatever its
\* status and body, never yields RequestError.
C7_RequestErrorOnlyOnTransportFailure ==
    \A c \in Answered :
        LET a == calls[c].answer
        IN  /\ a.kind = "transport_error" =>
                calls[c].result.kind = "Err" /\ calls[c].result.error = "RequestError"
            /\ calls[c].result.error = "RequestError" =>
                a.kind = "transport_error" \/ ~a.body.readable

\* C8 as stated: in every SettleResponse returned as Ok the signature is
\* present iff success is true and the error is present iff it is false.
C8_SignatureIffSuccess ==
    \A c \in SettleCalls :
        calls[c].result.kind = "Ok" =>
            /\ (calls[c].result.value.signature # None) <=> calls[c].result.value.success
            /\ (calls[c].result.value.error # None) <=> ~calls[c].result.value.success

\* C8, amended: every SettleResponse returned as Ok carries the success,
\* signature, status and error of the 2xx body as the facilitator sent them;
\* the client does not check signature or error against success.
C8_SettleResponseAsSent ==
    \A c \in SettleCalls :
        calls[c].result.kind = "Ok" =>
            LET a == calls[c].answer
                v == calls[c].result.value
            IN  /\ a.kind = "response" /\ a.status \in 200..299
                /\ a.body.json \in SettleBodies
                /\ v.success = a.body.json.success
                /\ v.signature = a.body.json.signature
                /\ v.status = a.body.json.status
                /\ v.error = a.body.json.error

\* A sign_and_settle has returned Ok(success, no signature, an error) and a
\* settle_payment Ok(no success, an error).
C8_Witness ==
    \E c, d \in SettleCalls :
        /\ calls[c].op = "sign_and_settle" /\ calls[c].result.kind = "Ok"
        /\ calls[c].result.value.success
        /\ calls[c].result.value.signature = None
        /\ calls[c].result.value.error # None
        /\ calls[d].op = "settle_payment" /\ calls[d].result.kind = "Ok"
        /\ ~calls[d].result.value.success

\* C10: the client's configuration is the one it was constructed with, and
\* two calls of the same operation with the same arguments have sent the
\* same requests and, given the same answer, returned the same result,
\* whatever else was in flight when each was made.
C10_NoSharedState ==
    /\ config = constructed
    /\ \A c, d \in Callers :
         calls[c].op # None /\ calls[c].op = calls[d].op /\ calls[c].args = calls[d].args =>
            /\ calls[c].sent = calls[d].sent
            /\ calls[c].pc = "done" /\ calls[d].pc = "done"
               /\ calls[c].answer = calls[d].answer =>
                   calls[c].result = calls[d].result

\* Two callers, the same operation and arguments, one answered and one
\* still in flight; and two answered alike.
C10_Witness ==
    \E c, d \in Callers :
        /\ c # d
        /\ calls[c].op = "create_payment" /\ calls[d].op = "create_payment"
        /\ calls[c].pc = "done" /\ calls[d].pc = "awaiting"
        /\ config.api_key # None
=============================================================================
